---- MODULE Spec2Model ----
(***************************************************************************)
(* State-machine model of the MicroBatcher class of ts-batch               *)
(* (src/unnamed/part_003): the pending queue, the ring of cached batches,  *)
(* the two lookup maps, the recurring timer, the stop() polling loop and   *)
(* the promises of the processing function.                                *)
(*                                                                         *)
(* Every public method and every callback is one action; JavaScript runs   *)
(* each of them to completion, so an action is the whole synchronous body  *)
(* of the method, including the nextBatch / processBatch calls it makes.   *)
(* The only suspension points are the promise of batchProcessFn (action    *)
(* Settle) and the sleep inside stop() (action StopPoll).                  *)
(***************************************************************************)
EXTENDS Integers, Sequences, FiniteSets, TLC

(***************************************************************************)
(* Bounds of the exploration.                                              *)
(***************************************************************************)
\* number of messages pushed onto the queue over the life of one engine
MaxAdds == 3
\* configurations explored: maxBatchSize in 0..MaxSize
MaxSize == 2
\* configurations explored: cacheLifespan in 0..MaxLifespan
MaxLifespan == 2
\* number of stop() calls that may be waiting in their polling loop at once
MaxStops == 1

(***************************************************************************)
(* JavaScript values.                                                      *)
(***************************************************************************)
\* Map.get() of a key that is not in the map (also an empty array slot)
Undefined == -2
\* the value null: the "pending" marker of stringToBatchId, a null batchId
Null == 0
\* the number NaN, the result of n % 0
NaN == -1

\* The messages a caller submits.  "nil" is null/undefined, "n0" is the
\* number 0, "a" and "b" are non-empty strings.
Messages == {"a", "b", "n0", "nil"}

\* !message of JavaScript: null, undefined, 0, '' and false are falsy
Falsy(m) == m \in {"nil", "n0"}

\* the message on which a caller-supplied hashFn raises
BadMessage == "a"

\* the strings messageToKey can return for the messages above
Keys == {"a", "b", "0", "null"}

Status == {"QUEUED", "BATCHED", "RESOLVED", "REJECTED", "DECLINED", "NOTFOUND"}

VARIABLES
    config,               \* this.config (start is the only field that changes)
    queue,                \* this.queue, each entry with its submission number
    batches,              \* this.batches: slot -> batchId of the Batch object, or Undefined
    batchObjs,            \* the Batch objects ever created, by batchId
    stringToBatchId,      \* this.stringToBatchId: key -> Undefined | Null | batchId
    batchIdToBatchIndex,  \* this.batchIdToBatchIndex: batchId -> slot, or Undefined
    currentBatchIndex,    \* this.currentBatchIndex
    uuidCount,            \* number of uuidv4() calls made so far
    intervalId,           \* this.intervalId: Null or a timer handle
    timers,               \* the interval timers that are armed
    stopsWaiting,         \* stop() calls suspended in their polling loop
    promises,             \* batchId -> state of the promise batchProcessFn returned
    handed,               \* history: batchIds in the order batchProcessFn was invoked
    accepted,             \* history: submissions for which add returned QUEUED or BATCHED
    nPushed,              \* history: number of queue.push calls so far
    uncaught,             \* history: an exception left the timer callback
    ret                   \* what the last add call returned (status THROWN: it raised)

vars == <<config, queue, batches, batchObjs, stringToBatchId, batchIdToBatchIndex,
          currentBatchIndex, uuidCount, intervalId, timers, stopsWaiting,
          promises, handed, accepted, nPushed, uncaught, ret>>

Min(a, b) == IF a < b THEN a ELSE b

\* slice(0, n) that takes one element when n is 0
SliceToAtLeastOne(s, n) == SubSeq(s, 1, Min(IF n = 0 THEN 1 ELSE n, Len(s)))

\* Array.prototype.slice(0, n) and slice(n) on a sequence
SliceTo(s, n) == SubSeq(s, 1, Min(n, Len(s)))
\* slice(n) that forgets to drop the first n elements
SliceFromKeepsAll(s, n) == s
SliceFrom(s, n) == SubSeq(s, n + 1, Len(s))

\* a ring that writes every batch to its first slot
JsModFirstSlot(n, l) == IF l = 0 THEN NaN ELSE 0

\* n % l of JavaScript for non-negative n: NaN when l is 0
JsMod(n, l) == IF l = 0 THEN NaN ELSE n % l

\* the indices of this.batches the code can read or write: 0..cacheLifespan-1,
\* or the property NaN when cacheLifespan is 0
Slots(l) == IF l = 0 THEN {NaN} ELSE 0 .. (l - 1)

\* the timer handles setInterval can return
Handles == 1 .. 3

\* the batch identifiers uuidv4 can return within the bounds
BatchIds == 1 .. MaxAdds

\* a Batch object that was not created yet
NoBatch == [messages |-> <<>>, status |-> "NONE"]

\* src/util.ts is not part of the sources: uuidv4() returns an identifier that
\* was never returned before; the n-th call is modelled as returning n
uuidv4(n) == n + 1

(***************************************************************************)
(* messageToKey: the key of a message, or an exception.                    *)
(***************************************************************************)
\* String(message) / JSON.stringify(message) of the default key derivation
toString(m) ==
    CASE m = "n0" -> "0"
      [] m = "nil" -> "null"
      [] OTHER -> m

\* the call raises: a caller-supplied hashFn that raises on BadMessage
messageToKeyThrows(m) ==
    /\ m # "nil"
    /\ config.hashFn = "partial"
    /\ m = BadMessage

messageToKey(m) == toString(m)

\* the messages of a sequence of queue entries that precede the first one
\* whose key derivation raises (all of them when none raises)
KeyedPrefix(entries) ==
    LET bad == {i \in 1 .. Len(entries) : messageToKeyThrows(entries[i].m)}
    IN  IF bad = {} THEN entries
        ELSE SubSeq(entries, 1, (CHOOSE i \in bad : \A j \in bad : i <= j) - 1)

KeysOf(entries) == {messageToKey(entries[i].m) : i \in 1 .. Len(entries)}

(***************************************************************************)
(* nextBatch, run on queue q and key map s2b (add changes both before it   *)
(* calls nextBatch).  The result holds the new value of every field        *)
(* nextBatch writes, the batchId of the batch it returns (Undefined for    *)
(* none) and whether it raised half way.                                   *)
(***************************************************************************)
nextBatch(q, s2b) ==
    LET currentBatchMessages == SliceTo(q, config.maxBatchSize)
        currentBatchId == uuidv4(uuidCount)
        index == JsMod(currentBatchIndex, config.cacheLifespan)
        cycledBatch == batches[index]
        \* a cached batch holds no message whose key derivation raises: the cut
        \* that would have installed it raised before writing this.batches
        cycledKeys == IF cycledBatch = Undefined THEN {}
                      ELSE KeysOf(batchObjs[cycledBatch].messages)
        s2bCycled == [k \in Keys |-> IF k \in cycledKeys THEN Undefined ELSE s2b[k]]
        b2iCycled == IF cycledBatch = Undefined THEN batchIdToBatchIndex
                     ELSE [batchIdToBatchIndex EXCEPT ![cycledBatch] = Undefined]
        keyed == KeyedPrefix(currentBatchMessages)
        threw == Len(keyed) < Len(currentBatchMessages)
        s2bNew == [k \in Keys |-> IF k \in KeysOf(keyed) THEN currentBatchId ELSE s2bCycled[k]]
    IN  IF Len(currentBatchMessages) = 0
        THEN [queue |-> q, stringToBatchId |-> s2b, batches |-> batches,
              batchObjs |-> batchObjs, batchIdToBatchIndex |-> batchIdToBatchIndex,
              currentBatchIndex |-> currentBatchIndex, uuidCount |-> uuidCount,
              batch |-> Undefined, threw |-> FALSE]
        ELSE IF threw
        THEN [queue |-> SliceFrom(q, config.maxBatchSize), stringToBatchId |-> s2bNew,
              batches |-> batches, batchObjs |-> batchObjs,
              batchIdToBatchIndex |-> b2iCycled,
              currentBatchIndex |-> currentBatchIndex + 1, uuidCount |-> uuidCount + 1,
              batch |-> Undefined, threw |-> TRUE]
        ELSE [queue |-> SliceFrom(q, config.maxBatchSize), stringToBatchId |-> s2bNew,
              batches |-> [batches EXCEPT ![index] = currentBatchId],
              batchObjs |-> [batchObjs EXCEPT ![currentBatchId] =
                                [messages |-> currentBatchMessages, status |-> "BATCHED"]],
              batchIdToBatchIndex |-> [b2iCycled EXCEPT ![currentBatchId] = index],
              currentBatchIndex |-> currentBatchIndex + 1, uuidCount |-> uuidCount + 1,
              batch |-> currentBatchId, threw |-> FALSE]

(***************************************************************************)
(* processBatch(batch).  It is an async function that nobody awaits: its   *)
(* body runs up to the call of batchProcessFn.  outcome is what the        *)
(* caller's function does when invoked: "promise" (it returns a promise,   *)
(* settled later by Settle) or "throw" (it raises, or returns something    *)
(* that is no promise): then the catch block rejects processBatch's own    *)
(* promise, which no caller observes, and batch.status is never written.   *)
(***************************************************************************)
\* what batchProcessFn can do when invoked: a caller's function returns a
\* promise or raises; the default of line 51, async () => {}, returns a
\* promise that resolves
Outcomes == IF config.batchProcessFn = "fn" THEN {"promise", "throw"} ELSE {"promise"}

processBatch(batch, outcome) ==
    /\ handed' = Append(handed, batch)
    /\ promises' = [promises EXCEPT ![batch] =
                       IF outcome = "promise" THEN "pending" ELSE "threw"]

noProcessBatch == UNCHANGED <<handed, promises>>

\* the fields nextBatch writes, taken from its result r
InstallNextBatch(r) ==
    /\ queue' = r.queue
    /\ stringToBatchId' = r.stringToBatchId
    /\ batches' = r.batches
    /\ batchObjs' = r.batchObjs
    /\ batchIdToBatchIndex' = r.batchIdToBatchIndex
    /\ currentBatchIndex' = r.currentBatchIndex
    /\ uuidCount' = r.uuidCount

Result(batchId, status) == [batchId |-> batchId, status |-> status]

(***************************************************************************)
(* add(message)                                                            *)
(***************************************************************************)
\* a declining add that pushes the message all the same
AddDeclinedPushes(m) ==
    /\ ~config.start \/ m = "nil"
    /\ nPushed < MaxAdds
    /\ queue' = Append(queue, [m |-> m, sid |-> nPushed + 1])
    /\ nPushed' = nPushed + 1
    /\ ret' = [batchId |-> Null, status |-> "DECLINED"]
    /\ UNCHANGED <<config, batches, batchObjs, stringToBatchId, batchIdToBatchIndex,
                   currentBatchIndex, uuidCount, intervalId, timers, stopsWaiting,
                   promises, handed, accepted, uncaught>>

\* line 94-95: not accepting, or a null / undefined message
AddDeclined(m) ==
    /\ ~config.start \/ m = "nil"
    /\ ret' = Result(Null, "DECLINED")
    /\ UNCHANGED <<config, queue, batches, batchObjs, stringToBatchId, batchIdToBatchIndex,
                   currentBatchIndex, uuidCount, intervalId, timers, stopsWaiting,
                   promises, handed, accepted, nPushed, uncaught>>

\* line 97: the duplicate check derives the key first; messageToKey raising
\* there is re-raised by add before anything is written
AddKeyFailsEarly(m) ==
    /\ config.start /\ m # "nil"
    /\ ~config.allowDuplicates
    /\ messageToKeyThrows(m)
    /\ ret' = Result(Null, "THROWN")
    /\ UNCHANGED <<config, queue, batches, batchObjs, stringToBatchId, batchIdToBatchIndex,
                   currentBatchIndex, uuidCount, intervalId, timers, stopsWaiting,
                   promises, handed, accepted, nPushed, uncaught>>

\* line 97-98: the key is already in stringToBatchId (pending or batched)
AddDuplicate(m) ==
    /\ config.start /\ m # "nil"
    /\ ~config.allowDuplicates
    /\ ~messageToKeyThrows(m)
    /\ stringToBatchId[messageToKey(m)] # Undefined
    /\ ret' = Result(Null, "DECLINED")
    /\ UNCHANGED <<config, queue, batches, batchObjs, stringToBatchId, batchIdToBatchIndex,
                   currentBatchIndex, uuidCount, intervalId, timers, stopsWaiting,
                   promises, handed, accepted, nPushed, uncaught>>

\* a size trigger that fires on every add
reachedMaxBatchSizeAlways(q) == TRUE

\* the size trigger with > for >=
reachedMaxBatchSizeStrict(q) == Len(q) > config.maxBatchSize

\* line 102: the size trigger
reachedMaxBatchSize(q) == Len(q) >= config.maxBatchSize

\* the message passes both checks of lines 94-99
AddPasses(m) ==
    /\ config.start /\ m # "nil"
    /\ \/ config.allowDuplicates
       \/ ~messageToKeyThrows(m) /\ stringToBatchId[messageToKey(m)] = Undefined
    /\ nPushed < MaxAdds

\* line 100-101 with allowDuplicates: the message is pushed, then messageToKey
\* raises and add re-raises with the message left in the queue
AddKeyFailsLate(m) ==
    /\ AddPasses(m)
    /\ messageToKeyThrows(m)
    /\ queue' = Append(queue, [m |-> m, sid |-> nPushed + 1])
    /\ nPushed' = nPushed + 1
    /\ ret' = Result(Null, "THROWN")
    /\ UNCHANGED <<config, batches, batchObjs, stringToBatchId, batchIdToBatchIndex,
                   currentBatchIndex, uuidCount, intervalId, timers, stopsWaiting,
                   promises, handed, accepted, uncaught>>

\* line 100-109: push, register the key as pending, cut a batch when the
\* queue has reached maxBatchSize and hand it to processBatch
AddPushed(m) ==
    /\ AddPasses(m)
    /\ ~messageToKeyThrows(m)
    /\ LET entry == [m |-> m, sid |-> nPushed + 1]
           q == Append(queue, entry)
           s2b == [stringToBatchId EXCEPT ![messageToKey(m)] = Null]
       IN  /\ nPushed' = nPushed + 1
           /\ IF reachedMaxBatchSize(q)
              THEN LET r == nextBatch(q, s2b)
                   IN  /\ InstallNextBatch(r)
                       /\ IF r.threw
                          THEN /\ ret' = Result(Null, "THROWN")
                               /\ accepted' = accepted
                               /\ noProcessBatch
                          ELSE IF r.batch # Undefined
                          THEN /\ \E outcome \in Outcomes :
                                      processBatch(r.batch, outcome)
                               /\ ret' = Result(r.batch, "BATCHED")
                               /\ accepted' = Append(accepted, entry)
                          ELSE /\ noProcessBatch
                               /\ ret' = Result(Null, "QUEUED")
                               /\ accepted' = Append(accepted, entry)
              ELSE /\ queue' = q
                   /\ stringToBatchId' = s2b
                   /\ ret' = Result(Null, "QUEUED")
                   /\ accepted' = Append(accepted, entry)
                   /\ noProcessBatch
                   /\ UNCHANGED <<batches, batchObjs, batchIdToBatchIndex,
                                  currentBatchIndex, uuidCount>>
    /\ UNCHANGED <<config, intervalId, timers, stopsWaiting, uncaught>>

Add(m) ==
    \/ AddDeclined(m)
    \/ AddKeyFailsEarly(m)
    \/ AddDuplicate(m)
    \/ AddKeyFailsLate(m)
    \/ AddPushed(m)

(***************************************************************************)
(* start(): accepting again, the previous interval cleared, a new one set. *)
(* setInterval is called whatever maxBatchTime is.                         *)
(***************************************************************************)
\* setInterval returns a handle that no armed timer has
setInterval(armed) == CHOOSE h \in Handles : h \notin armed /\ \A g \in Handles : g < h => g \in armed

\* a clearInterval that leaves the timer armed
clearIntervalLeaks(armed, h) == armed

clearInterval(armed, h) == armed \ {h}

Start ==
    LET cleared == IF intervalId # Null THEN clearInterval(timers, intervalId) ELSE timers
        h == setInterval(cleared)
    IN  /\ config' = [config EXCEPT !.start = TRUE]
        /\ intervalId' = h
        /\ timers' = cleared \cup {h}
        /\ UNCHANGED <<queue, batches, batchObjs, stringToBatchId, batchIdToBatchIndex,
                       currentBatchIndex, uuidCount, stopsWaiting, promises, handed,
                       accepted, nPushed, uncaught, ret>>

(***************************************************************************)
(* stop(): accepting is switched off at once; with an empty queue the loop *)
(* is skipped and the rest of the body runs in the same call, otherwise    *)
(* the call sleeps and StopPoll resumes it.                                *)
(***************************************************************************)
\* the code after the loop without its clearInterval
stopTailKeepsTimer == timers

\* the code after the loop without its test of config.start
stopTailAlwaysClears == IF intervalId # Null THEN clearInterval(timers, intervalId) ELSE timers

\* line 145-147: the code after the loop
stopTail == IF config'.start = FALSE /\ intervalId # Null
            THEN clearInterval(timers, intervalId)
            ELSE timers

\* a stop() that goes on accepting while it waits for the queue to drain
StopAcceptsWhileDraining ==
    /\ IF Len(queue) # 0
       THEN /\ stopsWaiting < MaxStops
            /\ stopsWaiting' = stopsWaiting + 1
            /\ config' = config
            /\ timers' = timers
       ELSE /\ stopsWaiting' = stopsWaiting
            /\ config' = [config EXCEPT !.start = FALSE]
            /\ timers' = IF intervalId # Null THEN timers \ {intervalId} ELSE timers
    /\ UNCHANGED <<queue, batches, batchObjs, stringToBatchId, batchIdToBatchIndex,
                   currentBatchIndex, uuidCount, intervalId, promises, handed,
                   accepted, nPushed, uncaught, ret>>

Stop ==
    /\ config' = [config EXCEPT !.start = FALSE]
    /\ IF Len(queue) # 0
       THEN /\ stopsWaiting < MaxStops
            /\ stopsWaiting' = stopsWaiting + 1
            /\ timers' = timers
       ELSE /\ stopsWaiting' = stopsWaiting
            /\ timers' = stopTail
    /\ UNCHANGED <<queue, batches, batchObjs, stringToBatchId, batchIdToBatchIndex,
                   currentBatchIndex, uuidCount, intervalId, promises, handed,
                   accepted, nPushed, uncaught, ret>>

\* a sleeping stop() that completes whatever the queue holds
StopPollIgnoresQueue ==
    /\ stopsWaiting > 0
    /\ stopsWaiting' = stopsWaiting - 1
    /\ config' = config
    /\ timers' = IF config.start = FALSE /\ intervalId # Null
                 THEN timers \ {intervalId} ELSE timers
    /\ UNCHANGED <<queue, batches, batchObjs, stringToBatchId, batchIdToBatchIndex,
                   currentBatchIndex, uuidCount, intervalId, promises, handed,
                   accepted, nPushed, uncaught, ret>>

\* a sleeping stop() wakes up and finds the queue empty (finding it
\* non-empty it sleeps again, which changes nothing)
StopPoll ==
    /\ stopsWaiting > 0
    /\ Len(queue) = 0
    /\ stopsWaiting' = stopsWaiting - 1
    /\ config' = config
    /\ timers' = stopTail
    /\ UNCHANGED <<queue, batches, batchObjs, stringToBatchId, batchIdToBatchIndex,
                   currentBatchIndex, uuidCount, intervalId, promises, handed,
                   accepted, nPushed, uncaught, ret>>

(***************************************************************************)
(* The callback of the interval timer (start, lines 124-129).              *)
(***************************************************************************)
\* a timer callback that counts a cut although it found nothing to cut
TickCountsIdleCuts ==
    /\ timers # {}
    /\ LET r == nextBatch(queue, stringToBatchId)
       IN  /\ queue' = r.queue
           /\ stringToBatchId' = r.stringToBatchId
           /\ batches' = r.batches
           /\ batchObjs' = r.batchObjs
           /\ batchIdToBatchIndex' = r.batchIdToBatchIndex
           /\ uuidCount' = r.uuidCount
           /\ currentBatchIndex' = IF r.batch = Undefined /\ ~r.threw /\ currentBatchIndex < MaxAdds
                                   THEN currentBatchIndex + 1 ELSE r.currentBatchIndex
           /\ uncaught' = (uncaught \/ r.threw)
           /\ IF r.batch # Undefined
              THEN \E outcome \in Outcomes : processBatch(r.batch, outcome)
              ELSE noProcessBatch
    /\ UNCHANGED <<config, intervalId, timers, stopsWaiting, accepted, nPushed, ret>>

Tick ==
    /\ timers # {}
    /\ LET r == nextBatch(queue, stringToBatchId)
       IN  /\ InstallNextBatch(r)
           /\ uncaught' = (uncaught \/ r.threw)
           /\ IF r.batch # Undefined
              THEN \E outcome \in Outcomes : processBatch(r.batch, outcome)
              ELSE noProcessBatch
    /\ UNCHANGED <<config, intervalId, timers, stopsWaiting, accepted, nPushed, ret>>

(***************************************************************************)
(* The promise returned by batchProcessFn settles: the .then / .catch      *)
(* callbacks of processBatch write the status of their own Batch object.   *)
(***************************************************************************)
\* a .catch callback that writes RESOLVED as well
settledStatusAlwaysResolved(resolved) == "RESOLVED"

\* line 271-276: .then writes RESOLVED, .catch writes REJECTED
settledStatus(resolved) == IF resolved THEN "RESOLVED" ELSE "REJECTED"

\* a settle that finds its batch through the ring slot it was cut into, and
\* so writes the status of whatever batch the slot holds now
SettleBySlot(batch, resolved) ==
    /\ promises[batch] = "pending"
    /\ promises' = [promises EXCEPT ![batch] = IF resolved THEN "resolved" ELSE "rejected"]
    /\ LET inSlot == batches[IF config.cacheLifespan = 0 THEN NaN
                             ELSE (batch - 1) % config.cacheLifespan]
       IN  batchObjs' = [batchObjs EXCEPT ![inSlot].status =
                            IF resolved THEN "RESOLVED" ELSE "REJECTED"]
    /\ UNCHANGED <<config, queue, batches, stringToBatchId, batchIdToBatchIndex,
                   currentBatchIndex, uuidCount, intervalId, timers, stopsWaiting,
                   handed, accepted, nPushed, uncaught, ret>>

Settle(batch, resolved) ==
    /\ promises[batch] = "pending"
    /\ config.batchProcessFn = "fn" \/ resolved
    /\ promises' = [promises EXCEPT ![batch] = IF resolved THEN "resolved" ELSE "rejected"]
    /\ batchObjs' = [batchObjs EXCEPT ![batch].status = settledStatus(resolved)]
    /\ UNCHANGED <<config, queue, batches, stringToBatchId, batchIdToBatchIndex,
                   currentBatchIndex, uuidCount, intervalId, timers, stopsWaiting,
                   handed, accepted, nPushed, uncaught, ret>>

(***************************************************************************)
(* The constructor.                                                        *)
(***************************************************************************)
\* line 67-83: options that are undefined are dropped before the merge, so an
\* undefined batchProcessFn leaves the default of line 51 in place; then the
\* range check of the numeric options and the test for a falsy batchProcessFn
constructorThrows(c) ==
    \/ c.cacheLifespan < 0 \/ c.maxBatchSize < 0 \/ c.maxBatchTime < 0
    \/ c.batchProcessFn = "null"

\* the option objects explored
ConfigParams ==
    [maxBatchSize : -1 .. MaxSize, maxBatchTime : {-1, 0, 250},
     cacheLifespan : -1 .. MaxLifespan, allowDuplicates : BOOLEAN,
     start : BOOLEAN, hashFn : {"undefined", "partial"},
     batchProcessFn : {"fn", "undefined", "null"}]

Init ==
    /\ config \in {c \in ConfigParams : ~constructorThrows(c)}
    /\ queue = <<>>
    /\ batches = [i \in Slots(config.cacheLifespan) |-> Undefined]
    /\ batchObjs = [id \in BatchIds |-> NoBatch]
    /\ stringToBatchId = [k \in Keys |-> Undefined]
    /\ batchIdToBatchIndex = [id \in BatchIds |-> Undefined]
    /\ currentBatchIndex = 0
    /\ uuidCount = 0
    /\ intervalId = IF config.start THEN 1 ELSE Null
    /\ timers = IF config.start THEN {1} ELSE {}
    /\ stopsWaiting = 0
    /\ promises = [id \in BatchIds |-> "none"]
    /\ handed = <<>>
    /\ accepted = <<>>
    /\ nPushed = 0
    /\ uncaught = FALSE
    /\ ret = Result(Null, "NONE")

Next ==
    \/ \E m \in Messages : Add(m)
    \/ Start
    \/ Stop
    \/ StopPoll
    \/ Tick
    \/ \E batch \in BatchIds, resolved \in BOOLEAN : Settle(batch, resolved)

Spec == Init /\ [][Next]_vars

\* the interval of start() keeps firing while it is armed, and the 2500 ms
\* sleep of a waiting stop() always ends
FairSpec == Spec /\ WF_vars(Tick) /\ WF_vars(StopPoll)

TypeOK ==
    /\ queue \in Seq([m : Messages, sid : 1 .. MaxAdds])
    /\ \A k \in Keys : stringToBatchId[k] \in {Undefined, Null} \cup BatchIds
    /\ uuidCount \in 0 .. MaxAdds
    /\ timers \subseteq Handles

(***************************************************************************)
(* status(message) and batchStatus(batchId): pure reads of the state.      *)
(* A result with status THROWN means the call raised.                      *)
(***************************************************************************)
\* line 180-187 / 205-213: the answer read from a slot of this.batches
slotStatus(batchIndex) ==
    LET batch == batches[batchIndex]
    IN  IF batch = Undefined THEN Result(Null, "NOTFOUND")
        ELSE Result(batch, batchObjs[batch].status)

status(m) ==
    IF Falsy(m) THEN Result(Null, "NOTFOUND")
    ELSE IF messageToKeyThrows(m) THEN Result(Null, "THROWN")
    ELSE LET batchId == stringToBatchId[messageToKey(m)]
         IN  IF batchId = Null THEN Result(Null, "QUEUED")
             ELSE IF batchId = Undefined THEN Result(Null, "NOTFOUND")
             ELSE IF batchIdToBatchIndex[batchId] = Undefined THEN Result(Null, "NOTFOUND")
             ELSE slotStatus(batchIdToBatchIndex[batchId])

\* batchId ranges over the identifiers issued so far and 0, the empty string
batchStatus(batchId) ==
    IF batchId = 0 THEN Result(Null, "NOTFOUND")
    ELSE IF batchIdToBatchIndex[batchId] = Undefined THEN Result(Null, "NOTFOUND")
    ELSE slotStatus(batchIdToBatchIndex[batchId])

(***************************************************************************)
(* Vocabulary of the properties.                                           *)
(***************************************************************************)
\* the Batch object with this id was created (its cut ran to the end)
Created(id) == batchObjs[id] # NoBatch

\* the batch is in the cache: batchStatus(id) finds it
Cached(id) == Created(id) /\ batchStatus(id).batchId = id

\* the queue entries of a sequence of batches, in order
RECURSIVE MessagesOf(_)
MessagesOf(ids) ==
    IF ids = <<>> THEN <<>>
    ELSE batchObjs[Head(ids)].messages \o MessagesOf(Tail(ids))

\* every message batchProcessFn has been given so far, in order
HandedMessages == MessagesOf(handed)

Range(s) == {s[i] : i \in 1 .. Len(s)}

\* how often entry e occurs in sequence s
Count(s, e) == Cardinality({i \in 1 .. Len(s) : s[i] = e})

IsAccepted(e) == e \in Range(accepted)

\* the batches that hold a message with key k
BatchesWithKey(k) == {id \in BatchIds : Created(id) /\ k \in KeysOf(batchObjs[id].messages)}

(***************************************************************************)
(* C1.  Conservation of messages: the accepted submissions, in order, are  *)
(* exactly the messages handed to batchProcessFn so far followed by those  *)
(* still queued; each accepted submission is in exactly one of the two     *)
(* places, once.  (Entries left in the queue by an add that raised are not *)
(* counted against the equality: it is stated on the accepted ones.)       *)
(***************************************************************************)
C1_Conservation ==
    config.cacheLifespan >= 1 =>
        /\ SelectSeq(HandedMessages \o queue, IsAccepted) = accepted
        /\ \A e \in Range(accepted) : Count(HandedMessages, e) + Count(queue, e) = 1

\* the same, for engines whose key derivation never raises
ConservationWhenKeysDerive ==
    config.hashFn = "undefined" =>
        /\ HandedMessages \o queue = accepted
        /\ \A e \in Range(accepted) : Count(HandedMessages, e) + Count(queue, e) = 1

(***************************************************************************)
(* C2.  maxBatchSize = n >= 1, a queue built by accepted add calls alone:  *)
(* an accepted add that finds fewer than n-1 messages queued returns       *)
(* QUEUED with a null id and cuts nothing; the one that finds n-1 queued   *)
(* cuts one batch holding the n messages, invokes batchProcessFn on it     *)
(* within the call, returns BATCHED with the id of the new batch and       *)
(* leaves the queue empty.                                                 *)
(***************************************************************************)
C2_OneFlushAtMaxBatchSize ==
    [][(/\ config.maxBatchSize >= 1
        /\ Len(accepted') = Len(accepted) + 1
        /\ Range(queue) \subseteq Range(accepted)
        /\ Len(queue) < config.maxBatchSize)
       => LET new == accepted'[Len(accepted')]
          IN  IF Len(queue) + 1 < config.maxBatchSize
              THEN /\ ret' = Result(Null, "QUEUED")
                   /\ queue' = Append(queue, new)
                   /\ handed' = handed
                   /\ batchObjs' = batchObjs
              ELSE \E id \in BatchIds :
                      /\ ~Created(id)
                      /\ batchObjs'[id] = [messages |-> Append(queue, new), status |-> "BATCHED"]
                      /\ \A other \in BatchIds \ {id} : batchObjs'[other] = batchObjs[other]
                      /\ handed' = Append(handed, id)
                      /\ promises[id] = "none" /\ promises'[id] # "none"
                      /\ ret' = Result(id, "BATCHED")
                      /\ queue' = <<>>]_vars

C2_Witness ==
    /\ config.maxBatchSize = 2
    /\ ret.status = "BATCHED"
    /\ Len(batchObjs[ret.batchId].messages) = 2
    /\ handed = <<ret.batchId>>
    /\ queue = <<>>

(***************************************************************************)
(* C3.  From the cut until batchProcessFn settles, and while the batch is  *)
(* cached, status(m) of every message m of the batch answers BATCHED with  *)
(* the id of that batch (stated with duplicate suppression on, where a key *)
(* names one batch only).                                                  *)
(***************************************************************************)
C3_BatchedWhileInFlight ==
    (config.cacheLifespan >= 1 /\ config.hashFn = "undefined" /\ ~config.allowDuplicates) =>
        \A id \in BatchIds :
            (promises[id] = "pending" /\ Cached(id)) =>
                \A e \in Range(batchObjs[id].messages) : status(e.m) = Result(id, "BATCHED")

\* what does hold: the batch itself is reported BATCHED, and so is every
\* message of it that status() does not take for "no message"
BatchedWhileInFlightUnlessFalsy ==
    \A id \in BatchIds :
        (promises[id] = "pending" /\ Cached(id)) =>
            /\ batchStatus(id) = Result(id, "BATCHED")
            /\ ~config.allowDuplicates =>
                  \A e \in Range(batchObjs[id].messages) :
                      ~Falsy(e.m) => status(e.m) = Result(id, "BATCHED")

(***************************************************************************)
(* C4.  The status of a batch follows the promise batchProcessFn returned  *)
(* for it: BATCHED while the promise is pending, RESOLVED once it has      *)
(* resolved, REJECTED once it has rejected.                                *)
(***************************************************************************)
C4_StatusFollowsPromise ==
    \A id \in BatchIds :
        /\ promises[id] = "pending" => batchObjs[id].status = "BATCHED"
        /\ promises[id] = "resolved" => batchObjs[id].status = "RESOLVED"
        /\ promises[id] = "rejected" => batchObjs[id].status = "REJECTED"

C4_Witness ==
    \E id, other \in BatchIds :
        /\ promises[id] = "resolved" /\ batchStatus(id) = Result(id, "RESOLVED")
        /\ promises[other] = "rejected" /\ batchStatus(other) = Result(other, "REJECTED")

(***************************************************************************)
(* C5.  Every failure of batchProcessFn, a rejected promise or an          *)
(* exception raised by the call itself, is recorded as REJECTED on the     *)
(* batch, and no failure is left unhandled.                                *)
(***************************************************************************)
C5_FailureRecorded ==
    (config.cacheLifespan >= 1 /\ config.hashFn = "undefined") =>
        \A id \in BatchIds :
            promises[id] \in {"rejected", "threw"} => batchObjs[id].status = "REJECTED"

(***************************************************************************)
(* C6.  Per-batch state machine: the status of a batch only moves from     *)
(* BATCHED to RESOLVED or to REJECTED, so at most once; its messages stay  *)
(* what they were at the cut and are never in the queue again; and         *)
(* batchProcessFn is invoked for it exactly once.                          *)
(***************************************************************************)
C6_BatchStateMachine ==
    [][\A id \in BatchIds :
          /\ Created(id) =>
                /\ batchObjs'[id].messages = batchObjs[id].messages
                /\ batchObjs'[id].status # batchObjs[id].status =>
                      /\ batchObjs[id].status = "BATCHED"
                      /\ batchObjs'[id].status \in {"RESOLVED", "REJECTED"}
          /\ batchObjs'[id] # NoBatch =>
                /\ Count(handed', id) = 1
                /\ Range(batchObjs'[id].messages) \cap Range(queue') = {}]_vars

C6_Witness ==
    \E id, other \in BatchIds :
        /\ batchObjs[id].status = "REJECTED"
        /\ batchObjs[other].status = "RESOLVED"
        /\ queue # <<>>

(***************************************************************************)
(* Eviction.  Batch k (k = 0, 1, ...) is the batch of the (k+1)-th         *)
(* uuidv4() call; currentBatchIndex counts the cuts made so far.           *)
(***************************************************************************)
\* status(m) of every message of the batch leads to the batch
MessagesResolveTo(id) ==
    \A e \in Range(batchObjs[id].messages) : status(e.m).batchId = id

\* status(m) of no message of the batch leads to the batch
NoMessageResolvesTo(id) ==
    \A e \in Range(batchObjs[id].messages) : status(e.m).batchId # id

\* every key of the batch is mapped to the batch / none is
KeysMapTo(id) ==
    \A k \in KeysOf(batchObjs[id].messages) : stringToBatchId[k] = id

NoKeyMapsTo(id) ==
    \A k \in KeysOf(batchObjs[id].messages) : stringToBatchId[k] # id

InWindow(id) ==
    /\ currentBatchIndex - config.cacheLifespan <= id - 1
    /\ id - 1 < currentBatchIndex

(***************************************************************************)
(* C7.  Strict FIFO eviction, with allowDuplicates = false: batch k is     *)
(* queryable, by batchStatus(id) and by status(m) of its messages, exactly *)
(* when c - cacheLifespan <= k < c, c the number of cuts so far; at most   *)
(* cacheLifespan batches are queryable.                                    *)
(***************************************************************************)
C7_FifoEviction ==
    (config.cacheLifespan >= 1 /\ config.hashFn = "undefined" /\ ~config.allowDuplicates) =>
        /\ \A id \in BatchIds :
              Created(id) =>
                 IF InWindow(id)
                 THEN batchStatus(id).batchId = id /\ MessagesResolveTo(id)
                 ELSE batchStatus(id).batchId = Null /\ NoMessageResolvesTo(id)
        /\ Cardinality({id \in BatchIds : Cached(id)}) <= config.cacheLifespan

\* what does hold: the same window, read through batchStatus and the key map
FifoEvictionOfKeys ==
    (config.cacheLifespan >= 1 /\ ~config.allowDuplicates) =>
        /\ \A id \in BatchIds :
              Created(id) =>
                 IF InWindow(id)
                 THEN batchStatus(id).batchId = id /\ KeysMapTo(id)
                 ELSE batchStatus(id).batchId = Null /\ NoKeyMapsTo(id)
        /\ Cardinality({id \in BatchIds : Cached(id)}) <= config.cacheLifespan

LiveKeys ==
    {k \in Keys : stringToBatchId[k] # Undefined}

QueuedKeys == KeysOf(SelectSeq(queue, LAMBDA e : ~messageToKeyThrows(e.m)))

IndexConsistent ==
    /\ \A id \in BatchIds :
          batchIdToBatchIndex[id] # Undefined => batches[batchIdToBatchIndex[id]] = id
    /\ \A slot \in DOMAIN batches :
          batches[slot] # Undefined => batchIdToBatchIndex[batches[slot]] = slot
    /\ \A k \in Keys :
          stringToBatchId[k] \in BatchIds =>
              /\ batchIdToBatchIndex[stringToBatchId[k]] # Undefined
              /\ stringToBatchId[k] \in BatchesWithKey(k)
    /\ \A k \in Keys : stringToBatchId[k] = Null => k \in QueuedKeys

C9_IndexConsistency == config.cacheLifespan >= 1 => IndexConsistent

\* the same, for engines whose key derivation never raises
IndexConsistentWhenKeysDerive == config.hashFn = "undefined" => IndexConsistent

(***************************************************************************)
(* C10.  With allowDuplicates enabled status(m) reports the latest         *)
(* batching event of m's key: QUEUED while a message with the key is in    *)
(* the queue, otherwise the id and status of the most recently cut batch   *)
(* holding the key, as long as that batch is cached.  (Stated for the      *)
(* messages status() looks up and for a key derivation that never raises.) *)
(***************************************************************************)
SetMax(S) == CHOOSE x \in S : \A y \in S : y <= x

C10_LatestWins ==
    (config.allowDuplicates /\ config.cacheLifespan >= 1 /\ config.hashFn = "undefined") =>
        \A m \in Messages :
            ~Falsy(m) =>
                IF messageToKey(m) \in QueuedKeys
                THEN status(m) = Result(Null, "QUEUED")
                ELSE BatchesWithKey(messageToKey(m)) # {} =>
                        LET latest == SetMax(BatchesWithKey(messageToKey(m)))
                        IN  Cached(latest) =>
                               status(m) = Result(latest, batchObjs[latest].status)

(***************************************************************************)
(* Duplicate suppression.                                                  *)
(***************************************************************************)
\* the cached batches that hold a message with key k
CachedWithKey(k) == {id \in BatchesWithKey(k) : Cached(id)}

\* key k is pending in the queue or belongs to a batch still in the cache
KeyLive(k) == k \in QueuedKeys \/ CachedWithKey(k) # {}

\* the queue / batch state of the submission that holds key k
FirstSubmissionState(k) ==
    IF k \in QueuedKeys THEN Result(Null, "QUEUED")
    ELSE LET id == CHOOSE b \in CachedWithKey(k) : TRUE
         IN  Result(id, batchObjs[id].status)

\* the fields a declined add must leave alone
engineState == <<queue, batches, batchObjs, stringToBatchId, batchIdToBatchIndex,
                 currentBatchIndex, uuidCount, promises, handed>>

\* add(m) of the current state answers DECLINED for a duplicate exactly when
\* suppression is on and the key is live, and is accepted otherwise
DeclinedIffLiveDuplicate(m) ==
    LET dup == ~config.allowDuplicates /\ KeyLive(messageToKey(m))
    IN  /\ (ENABLED AddDuplicate(m)) <=> dup
        /\ nPushed < MaxAdds => ((ENABLED AddPushed(m)) <=> ~dup)
        /\ ~ENABLED (AddDuplicate(m) /\ engineState' # engineState)

(***************************************************************************)
(* C11.  While the engine is accepting, add(m) of a non-null m is DECLINED *)
(* with a null id exactly when allowDuplicates is false and the key of m   *)
(* is pending in the queue or belongs to a cached batch, whatever the      *)
(* status of that batch; the declined call changes nothing, and status(m)  *)
(* answers with the queue / batch state of the first submission.  With     *)
(* allowDuplicates true the key is accepted every time.                    *)
(***************************************************************************)
C11_DuplicateSuppression ==
    (config.start /\ config.cacheLifespan >= 1 /\ config.hashFn = "undefined") =>
        \A m \in Messages \ {"nil"} :
            /\ DeclinedIffLiveDuplicate(m)
            /\ (~config.allowDuplicates /\ KeyLive(messageToKey(m))) =>
                  status(m) = FirstSubmissionState(messageToKey(m))

\* what does hold: the same for every configuration the constructor accepts,
\* with the answer of status(m) stated for the messages status() looks up
DuplicateSuppressionUnlessFalsy ==
    config.start =>
        \A m \in Messages \ {"nil"} :
            ~messageToKeyThrows(m) =>
                /\ DeclinedIffLiveDuplicate(m)
                /\ (~config.allowDuplicates /\ KeyLive(messageToKey(m)) /\ ~Falsy(m)) =>
                      status(m) = FirstSubmissionState(messageToKey(m))

(***************************************************************************)
(* The recurring timer.                                                    *)
(***************************************************************************)
\* this step cuts one batch made of the first min(queue length, maxBatchSize)
\* queued messages and invokes batchProcessFn on it, once
CutsOneBatch ==
    LET n == Min(Len(queue), config.maxBatchSize)
    IN  \E id \in BatchIds :
           /\ ~Created(id)
           /\ batchObjs'[id] = [messages |-> SubSeq(queue, 1, n), status |-> "BATCHED"]
           /\ \A other \in BatchIds \ {id} : batchObjs'[other] = batchObjs[other]
           /\ handed' = Append(handed, id)
           /\ promises[id] = "none" /\ promises'[id] # "none"
           /\ queue' = SubSeq(queue, n + 1, Len(queue))

(***************************************************************************)
(* C12.  With maxBatchSize >= 1 every firing of the timer that finds the   *)
(* queue non-empty cuts exactly one batch, made of the first               *)
(* min(queue length, maxBatchSize) queued messages, and invokes            *)
(* batchProcessFn on it once, whether the engine is accepting or not.      *)
(***************************************************************************)
C12_TimerCutsOneBatch ==
    [][(Tick /\ config.maxBatchSize >= 1 /\ config.cacheLifespan >= 1 /\ queue # <<>>)
          => CutsOneBatch]_vars

\* the same, for engines whose key derivation never raises
TimerCutsWhenKeysDerive ==
    [][(Tick /\ config.maxBatchSize >= 1 /\ config.hashFn = "undefined" /\ queue # <<>>)
          => CutsOneBatch]_vars

\* maxBatchSize 2 and three accepted messages: a size-triggered batch of two,
\* then a timer-triggered batch of one
TimerCutsTheRest ==
    /\ config.maxBatchSize = 2 /\ config.hashFn = "undefined"
    /\ Len(accepted) = 3
    /\ handed = <<1, 2>>
    /\ Len(batchObjs[1].messages) = 2 /\ Len(batchObjs[2].messages) = 1
    /\ queue = <<>>

(***************************************************************************)
(* C13.  With maxBatchSize = 0 the flush is left to the timer: a firing    *)
(* that finds the queue non-empty cuts a batch and hands it to             *)
(* batchProcessFn (so that every accepted message is processed in the      *)
(* end).                                                                   *)
(***************************************************************************)
C13_TimerFlushesWhenSizeZero ==
    (/\ config.maxBatchSize = 0 /\ config.maxBatchTime > 0
     /\ config.cacheLifespan >= 1 /\ config.hashFn = "undefined"
     /\ timers # {} /\ queue # <<>>)
        => ENABLED (/\ Tick
                    /\ Len(handed') = Len(handed) + 1
                    /\ Len(queue') < Len(queue))

\* what the code does: with maxBatchSize = 0 no batch is ever cut, the
\* accepted messages stay in the queue
NeverCutsWhenSizeZero ==
    config.maxBatchSize = 0 =>
        /\ handed = <<>>
        /\ currentBatchIndex = 0
        /\ \A e \in Range(accepted) : e \in Range(queue)

\* this step is an add call that pushed its message or changed its answer
AddStep == nPushed' # nPushed \/ ret' # ret

(***************************************************************************)
(* C14.  With maxBatchSize = 0 and maxBatchTime > 0 no add call cuts a     *)
(* batch or invokes batchProcessFn, however many messages were submitted:  *)
(* every accepted add returns QUEUED with a null id and the queue grows by *)
(* the message.                                                            *)
(***************************************************************************)
C14_NoFlushOnAddWhenSizeZero ==
    [][(config.maxBatchSize = 0 /\ config.maxBatchTime > 0 /\ AddStep)
          => /\ handed' = handed
             /\ promises' = promises
             /\ batchObjs' = batchObjs
             /\ currentBatchIndex' = currentBatchIndex
             /\ Len(accepted') = Len(accepted) + 1 =>
                   /\ ret' = Result(Null, "QUEUED")
                   /\ queue' = Append(queue, accepted'[Len(accepted')])]_vars

C14_Witness ==
    /\ config.maxBatchSize = 0 /\ config.maxBatchTime > 0
    /\ Len(accepted) = MaxAdds
    /\ Len(queue) = MaxAdds
    /\ ret = Result(Null, "QUEUED")
    /\ handed = <<>>

(***************************************************************************)
(* C15.  With maxBatchTime = 0 no timer is armed, so no flush is           *)
(* timer-triggered: every batch ever cut was cut by an add that filled it  *)
(* to maxBatchSize; messages that do not fill a batch stay in the queue    *)
(* and batchProcessFn is not invoked for them.                             *)
(***************************************************************************)
C15_NoTimerFlushWhenTimeZero ==
    (config.maxBatchTime = 0 /\ config.maxBatchSize >= 1
        /\ config.cacheLifespan >= 1 /\ config.hashFn = "undefined") =>
        \A id \in BatchIds :
            Created(id) => Len(batchObjs[id].messages) = config.maxBatchSize

\* what the code does: start() arms the interval whatever maxBatchTime is, so
\* an accepting engine always has its timer armed
TimerArmedWhileAccepting ==
    config.start => (intervalId # Null /\ intervalId \in timers)

(***************************************************************************)
(* C16.  With maxBatchTime = 0 and maxBatchSize = 0 no batch is ever cut   *)
(* and batchProcessFn is never invoked, whatever add, start and stop calls *)
(* and timer firings happen.                                               *)
(***************************************************************************)
C16_NoFlushWhenBothZero ==
    (config.maxBatchTime = 0 /\ config.maxBatchSize = 0) =>
        /\ handed = <<>>
        /\ \A id \in BatchIds : ~Created(id) /\ promises[id] = "none"
        /\ currentBatchIndex = 0 /\ uuidCount = 0
        /\ \A slot \in DOMAIN batches : batches[slot] = Undefined

\* messages queued, stop() called and waiting, start() called again, the
\* timer armed: still nothing was cut
C16_Witness ==
    /\ config.maxBatchTime = 0 /\ config.maxBatchSize = 0
    /\ Len(queue) = MaxAdds
    /\ stopsWaiting = 1
    /\ config.start
    /\ timers # {}
    /\ handed = <<>>

(***************************************************************************)
(* C17.  Whenever the message is null / undefined or the engine is not     *)
(* accepting (constructed with start: false and never started, or          *)
(* stopped), add answers DECLINED with a null id, leaves the queue, the    *)
(* cache, both indices and the batch counter unchanged and does not invoke *)
(* batchProcessFn; an engine constructed with start: false and never       *)
(* started never invokes batchProcessFn.  (intervalId is null exactly as   *)
(* long as start() has never run.)                                         *)
(***************************************************************************)
C17_DeclinedChangesNothing ==
    /\ \A m \in Messages :
          (~config.start \/ m = "nil") =>
              /\ ENABLED (Add(m) /\ ret' = Result(Null, "DECLINED"))
              /\ ~ENABLED (Add(m) /\ ret' # Result(Null, "DECLINED"))
              /\ ~ENABLED (Add(m) /\ engineState' # engineState)
    /\ intervalId = Null =>
          /\ ~config.start
          /\ timers = {}
          /\ handed = <<>>
          /\ queue = <<>>
          /\ \A id \in BatchIds : ~Created(id) /\ promises[id] = "none"

\* a stopped engine that is still draining has declined an add
C17_Witness ==
    /\ ~config.start
    /\ ret = Result(Null, "DECLINED")
    /\ queue # <<>>
    /\ handed # <<>>
    /\ stopsWaiting = 1

(***************************************************************************)
(* C18.  stop() switches accepting off in the very step it is called:      *)
(* every add issued after the call, also while stop() is still waiting for *)
(* the queue to drain, answers DECLINED, until start() is called again     *)
(* (accepting is switched on again by start() alone).                      *)
(***************************************************************************)
C18_StopDeclinesAtOnce ==
    /\ [](~ENABLED (Stop /\ config'.start))
    /\ [](~config.start =>
             \A m \in Messages : ~ENABLED (Add(m) /\ ret' # Result(Null, "DECLINED")))
    /\ [][(~config.start /\ config'.start) => Start]_vars

\* stop() is waiting on a queue of two, the engine does not accept and the
\* last add was declined
C18_Witness ==
    /\ stopsWaiting = 1
    /\ ~config.start
    /\ Len(queue) = 2
    /\ timers # {}
    /\ ret = Result(Null, "DECLINED")

(***************************************************************************)
(* C19.  The promise returned by stop() never completes while the queue is *)
(* non-empty: a stop() called on a non-empty queue suspends, a suspended   *)
(* stop() does not resume past its loop while the queue is non-empty, and  *)
(* in the step in which a stop() completes the queue is empty.             *)
(***************************************************************************)
C19_StopCompletesOnEmptyQueue ==
    /\ [](queue # <<>> => ~ENABLED (Stop /\ stopsWaiting' # stopsWaiting + 1))
    /\ [](queue # <<>> => ~ENABLED StopPoll)
    /\ [][stopsWaiting' < stopsWaiting => (queue = <<>> /\ queue' = <<>>)]_vars

\* a stop() has completed and cleared the timer, after the timer had cut a
\* batch smaller than maxBatchSize
C19_Witness ==
    /\ ~config.start
    /\ stopsWaiting = 0
    /\ intervalId # Null /\ timers = {}
    /\ queue = <<>>
    /\ \E id \in BatchIds :
          Created(id) /\ Len(batchObjs[id].messages) < config.maxBatchSize

(***************************************************************************)
(* C20.  stop() terminates: for every configuration the constructor        *)
(* accepts and every content of the queue at the call, if the timer keeps  *)
(* firing and the polling loop of stop() keeps running, a waiting stop()   *)
(* completes in the end.                                                   *)
(***************************************************************************)
C20_StopTerminates ==
    (config.cacheLifespan >= 1 /\ config.hashFn = "undefined" /\ stopsWaiting > 0)
        ~> (stopsWaiting = 0)

\* what does hold: a waiting stop() completes when maxBatchSize is at least 1
StopTerminatesWhenSizePositive ==
    (config.maxBatchSize >= 1 /\ stopsWaiting > 0) ~> (stopsWaiting = 0)

\* while messages are queued the timer is armed
TimerArmedWhileQueued == queue # <<>> => timers # {}

(***************************************************************************)
(* No message is dropped.                                                  *)
(***************************************************************************)
\* the submission numbers of a sequence of queue entries
SidsOf(entries) == {entries[i].sid : i \in 1 .. Len(entries)}

(***************************************************************************)
(* C21.  No accepted message is silently dropped: if the timer keeps       *)
(* firing, every message for which add returned QUEUED or BATCHED is cut   *)
(* into a batch and handed to batchProcessFn in the end, whether it was    *)
(* accepted before a stop() or after a later start().                      *)
(***************************************************************************)
C21_AcceptedIsProcessed ==
    \A sid \in 1 .. MaxAdds :
        (config.cacheLifespan >= 1 /\ config.hashFn = "undefined" /\ sid \in SidsOf(accepted))
            ~> (sid \in SidsOf(HandedMessages))

\* what does hold: the same when maxBatchSize is at least 1 and the key
\* derivation never raises
AcceptedIsProcessedWhenSizePositive ==
    \A sid \in 1 .. MaxAdds :
        (config.maxBatchSize >= 1 /\ config.hashFn = "undefined" /\ sid \in SidsOf(accepted))
            ~> (sid \in SidsOf(HandedMessages))

(***************************************************************************)
(* stop() and the batches in flight.                                       *)
(***************************************************************************)
\* this step completes a stop() call: a waiting one leaves its loop, or one
\* called on an empty queue runs to its end at once
StopCompletes ==
    \/ stopsWaiting' < stopsWaiting
    \/ config.start /\ ~config'.start /\ stopsWaiting' = stopsWaiting

(***************************************************************************)
(* C22.  When the promise returned by stop() resolves all batches have     *)
(* finished processing: no batch is in flight, every batch that was cut is *)
(* RESOLVED or REJECTED.                                                   *)
(***************************************************************************)
C22_StopWaitsForBatches ==
    [][(StopCompletes /\ config.cacheLifespan >= 1 /\ config.hashFn = "undefined")
          => \A id \in BatchIds : promises'[id] # "pending"]_vars

\* what does hold: stop() waits for the queue, not for the batches
StopWaitsForQueueOnly ==
    [][StopCompletes => queue' = <<>>]_vars

C24_AtMostOneTimer ==
    /\ Cardinality(timers) <= 1
    /\ timers \subseteq {intervalId}
    /\ ENABLED Start
    /\ ~ENABLED (Start /\ ~(config'.start /\ timers' = {intervalId'}))

\* start() was called while a stop() was waiting: one timer
C24_Witness ==
    /\ stopsWaiting = 1
    /\ config.start
    /\ queue # <<>>
    /\ timers = {intervalId}

\* the status a settled promise leaves on its batch
SettledAs(id) == IF promises[id] = "resolved" THEN "RESOLVED" ELSE "REJECTED"

\* a batch in flight can settle either way, and the settle writes its status
CanSettle(id) ==
    /\ ENABLED (Settle(id, TRUE) /\ batchObjs'[id].status = "RESOLVED")
    /\ ENABLED (Settle(id, FALSE) /\ batchObjs'[id].status = "REJECTED")

(***************************************************************************)
(* C25.  stop() does not cancel the batches in flight: once stop() has     *)
(* been called (and also after it has completed) a batch that is BATCHED   *)
(* still becomes RESOLVED or REJECTED when batchProcessFn settles, and     *)
(* that outcome is what batchStatus of its id and status of its messages   *)
(* answer while the batch is cached (stated with duplicate suppression on, *)
(* where a key names one batch only).                                      *)
(***************************************************************************)
C25_StopLeavesBatchesInFlight ==
    (~config.start /\ config.cacheLifespan >= 1 /\ config.hashFn = "undefined"
        /\ ~config.allowDuplicates) =>
        \A id \in BatchIds :
            /\ promises[id] = "pending" => CanSettle(id)
            /\ (promises[id] \in {"resolved", "rejected"} /\ Cached(id)) =>
                  /\ batchStatus(id) = Result(id, SettledAs(id))
                  /\ \A e \in Range(batchObjs[id].messages) :
                        status(e.m) = Result(id, SettledAs(id))

\* what does hold: the same in every configuration, with the answer of
\* status(m) stated for the messages status() looks up
StopLeavesBatchesUnlessFalsy ==
    ~config.start =>
        \A id \in BatchIds :
            /\ promises[id] = "pending" => CanSettle(id)
            /\ (promises[id] \in {"resolved", "rejected"} /\ Cached(id)) =>
                  /\ batchStatus(id) = Result(id, SettledAs(id))
                  /\ ~config.allowDuplicates =>
                        \A e \in Range(batchObjs[id].messages) :
                            ~Falsy(e.m) => status(e.m) = Result(id, SettledAs(id))

\* a batch settled after stop() had completed and cleared the timer
SettledAfterStop ==
    /\ ~config.start /\ timers = {} /\ stopsWaiting = 0
    /\ \E id \in BatchIds : Cached(id) /\ batchStatus(id).status \in {"RESOLVED", "REJECTED"}

(***************************************************************************)
(* Construction.                                                           *)
(***************************************************************************)
\* a numeric option is below its documented minimum
BelowMinimum(c) == c.cacheLifespan < 1 \/ c.maxBatchSize < 0 \/ c.maxBatchTime < 0

(***************************************************************************)
(* C26.  Construction fails whenever a numeric option is below its         *)
(* documented minimum (cacheLifespan < 1, maxBatchSize < 0, maxBatchTime   *)
(* < 0): no engine exists with such a configuration, none has a timer      *)
(* armed, accepts a message or cuts a batch.                               *)
(***************************************************************************)
C26_ConstructionFailsBelowMinimum ==
    BelowMinimum(config) =>
        /\ timers = {}
        /\ accepted = <<>>
        /\ \A id \in BatchIds : ~Created(id)

\* what does hold: the constructor refuses negative options only
ConstructionFailsWhenNegative ==
    config.cacheLifespan >= 0 /\ config.maxBatchSize >= 0 /\ config.maxBatchTime >= 0

\* an engine with cacheLifespan 0 at work: its one batch is kept under the
\* index NaN and found by batchStatus
EngineWithLifespanZero ==
    /\ config.cacheLifespan = 0
    /\ timers # {}
    /\ accepted # <<>>
    /\ \E id \in BatchIds : batches[NaN] = id /\ batchStatus(id) = Result(id, "RESOLVED")

(***************************************************************************)
(* C27.  Constructing an engine without a processing function              *)
(* (batchProcessFn absent, undefined or null) fails: every engine runs a   *)
(* function its caller supplied, none silently uses a default no-op.       *)
(***************************************************************************)
C27_ProcessingFunctionRequired ==
    config.batchProcessFn # "fn" =>
        /\ timers = {}
        /\ accepted = <<>>
        /\ \A id \in BatchIds : ~Created(id)

\* what does hold: a null batchProcessFn is refused
NullProcessingFunctionRefused == config.batchProcessFn # "null"

\* an engine built without batchProcessFn reports a batch RESOLVED that no
\* function of the caller ever saw
ResolvedByDefaultFunction ==
    /\ config.batchProcessFn = "undefined"
    /\ \E id \in BatchIds : batchStatus(id) = Result(id, "RESOLVED")

(***************************************************************************)
(* batchStatus and status.                                                 *)
(***************************************************************************)
\* batchStatus(id) answers by the eviction window: the batch with its
\* current status while the batch is cached, NOTFOUND once it is evicted or
\* when no batch with the id was ever cut; and status(m) of a message of a
\* cached batch agrees with batchStatus of the id it returns
BatchStatusByWindow ==
    /\ batchStatus(0) = Result(Null, "NOTFOUND")
    /\ \A id \in BatchIds :
          IF Created(id) /\ InWindow(id)
          THEN batchStatus(id) = Result(id, batchObjs[id].status)
          ELSE batchStatus(id) = Result(Null, "NOTFOUND")
    /\ ~config.allowDuplicates =>
          \A id \in BatchIds :
              (Created(id) /\ InWindow(id)) =>
                  \A e \in Range(batchObjs[id].messages) :
                      batchStatus(status(e.m).batchId) = status(e.m)

BatchStatusLookupInRing == config.cacheLifespan >= 1 => BatchStatusByWindow

(***************************************************************************)
(* C29.  For every message that add accepted (any value other than null    *)
(* and undefined) and that is still in the queue status(m) answers QUEUED  *)
(* with a null id; for a key that was never submitted, or whose batch was  *)
(* evicted, status answers NOTFOUND with a null id.                        *)
(***************************************************************************)
C29_QueuedAndNotFound ==
    (config.cacheLifespan >= 1 /\ config.hashFn = "undefined" /\ ~config.allowDuplicates) =>
        /\ \A e \in Range(queue) :
              e \in Range(accepted) => status(e.m) = Result(Null, "QUEUED")
        /\ \A m \in Messages \ {"nil"} :
              ~KeyLive(messageToKey(m)) => status(m) = Result(Null, "NOTFOUND")

\* what does hold: the same for the messages status() looks up, in every
\* configuration with duplicate suppression on
QueuedAndNotFoundUnlessFalsy ==
    ~config.allowDuplicates =>
        /\ \A e \in Range(queue) :
              (e \in Range(accepted) /\ ~Falsy(e.m)) => status(e.m) = Result(Null, "QUEUED")
        /\ \A m \in Messages \ {"nil"} :
              (~messageToKeyThrows(m) /\ ~KeyLive(messageToKey(m))) =>
                  status(m) = Result(Null, "NOTFOUND")

(***************************************************************************)
(* Settles.                                                                *)
(***************************************************************************)
\* this step settles the promise of batch id
Settles(id) == promises[id] = "pending" /\ promises'[id] \in {"resolved", "rejected"}

\* what status and batchStatus answer, for every message and every id
Answers ==
    <<[m \in Messages |-> status(m)], [id \in BatchIds \cup {0} |-> batchStatus(id)]>>

(***************************************************************************)
(* C30.  A settle belongs to its own batch: when the promise of batch B    *)
(* settles only the status of B changes, whatever other settles, adds,     *)
(* cuts and evictions are interleaved with it; when B has been evicted     *)
(* (its slot may hold a newer batch by then) the late settle changes no    *)
(* other batch and no answer of status or batchStatus.                     *)
(***************************************************************************)
C30_SettleOwnBatchOnly ==
    [][\A id \in BatchIds :
          Settles(id) =>
              /\ batchObjs'[id].status = settledStatus(promises'[id] = "resolved")
              /\ batchObjs'[id].messages = batchObjs[id].messages
              /\ \A other \in BatchIds \ {id} :
                    batchObjs'[other] = batchObjs[other] /\ promises'[other] = promises[other]
              /\ UNCHANGED <<queue, batches, stringToBatchId, batchIdToBatchIndex,
                             currentBatchIndex>>
              /\ ~Cached(id) => Answers' = Answers]_vars

\* batch 1 was evicted from a ring of one slot and has settled; the slot
\* holds batch 2, which is still in flight and still reported BATCHED
C30_Witness ==
    /\ config.cacheLifespan = 1
    /\ promises[1] \in {"resolved", "rejected"} /\ ~Cached(1)
    /\ batchObjs[1].status = SettledAs(1)
    /\ batches[0] = 2 /\ promises[2] = "pending"
    /\ batchStatus(2) = Result(2, "BATCHED")

(***************************************************************************)
(* C31.  A firing of the timer that finds the queue empty is a no-op: it   *)
(* cuts no batch, does not invoke batchProcessFn, does not advance the     *)
(* batch counter and evicts nothing, so the cached batches stay queryable; *)
(* and batchProcessFn is never invoked with an empty list of messages.     *)
(***************************************************************************)
C31_IdleTickIsNoOp ==
    /\ (queue = <<>> /\ timers # {}) =>
          /\ ENABLED Tick
          /\ ~ENABLED (Tick /\ (engineState' # engineState \/ Answers' # Answers
                                   \/ uncaught' # uncaught))
    /\ \A i \in 1 .. Len(handed) : batchObjs[handed[i]].messages # <<>>

\* two batches cached, the queue empty, the timer armed
C31_Witness ==
    /\ queue = <<>>
    /\ timers # {}
    /\ currentBatchIndex = 2
    /\ Cached(1) /\ Cached(2)

(***************************************************************************)
(* C32.  Batch sizes with maxBatchSize >= 1: every batch ever cut holds at *)
(* least 1 and at most maxBatchSize messages; a batch cut by add holds     *)
(* exactly maxBatchSize messages; and one add call cuts at most one batch. *)
(***************************************************************************)
C32_BatchSizeBounds ==
    /\ [](config.maxBatchSize >= 1 =>
             \A id \in BatchIds :
                 Created(id) => /\ Len(batchObjs[id].messages) >= 1
                                /\ Len(batchObjs[id].messages) <= config.maxBatchSize)
    /\ [][(config.maxBatchSize >= 1 /\ AddStep) =>
             /\ Cardinality({id \in BatchIds : ~Created(id) /\ batchObjs'[id] # NoBatch}) <= 1
             /\ Len(handed') <= Len(handed) + 1
             /\ \A id \in BatchIds :
                   (~Created(id) /\ batchObjs'[id] # NoBatch) =>
                       /\ Len(batchObjs'[id].messages) = config.maxBatchSize
                       /\ ret' = Result(id, "BATCHED")]_vars

\* maxBatchSize 2: the timer cut a batch of one, then an add cut a batch of two
C32_Witness ==
    /\ config.maxBatchSize = 2
    /\ Len(batchObjs[1].messages) = 1
    /\ Len(batchObjs[2].messages) = 2
    /\ ret = Result(2, "BATCHED")

(***************************************************************************)
(* Order.                                                                  *)
(***************************************************************************)
\* the messages of the batches with ids 1 .. k, in the order of the cuts
RECURSIVE BatchMessagesUpTo(_)
BatchMessagesUpTo(k) ==
    IF k = 0 THEN <<>> ELSE BatchMessagesUpTo(k - 1) \o batchObjs[k].messages

\* the submission numbers of a sequence of entries increase
InSubmissionOrder(entries) ==
    \A i, j \in 1 .. Len(entries) : i < j => entries[i].sid < entries[j].sid

(***************************************************************************)
(* C33.  Order is preserved: every batch holds its messages in the order   *)
(* they were accepted, and the batches concatenated in the order they were *)
(* cut, followed by the queue, are exactly the accepted messages in        *)
(* submission order.  (Entries left in the queue by an add that raised are *)
(* not counted against the equality: it is stated on the accepted ones.)   *)
(***************************************************************************)
C33_OrderPreserved ==
    config.cacheLifespan >= 1 =>
        /\ \A id \in BatchIds : InSubmissionOrder(batchObjs[id].messages)
        /\ InSubmissionOrder(queue)
        /\ SelectSeq(BatchMessagesUpTo(MaxAdds) \o queue, IsAccepted) = accepted

\* the same, for engines whose key derivation never raises
OrderPreservedWhenKeysDerive ==
    config.hashFn = "undefined" =>
        /\ \A id \in BatchIds : InSubmissionOrder(batchObjs[id].messages)
        /\ InSubmissionOrder(queue)
        /\ BatchMessagesUpTo(MaxAdds) \o queue = accepted

\* three accepted messages spread over two batches, in order
OrderedAcrossBatches ==
    /\ config.hashFn = "undefined"
    /\ Created(1) /\ Created(2)
    /\ queue = <<>>
    /\ Len(accepted) = MaxAdds
    /\ BatchMessagesUpTo(MaxAdds) = accepted

(***************************************************************************)
(* Ring slots.                                                             *)
(***************************************************************************)
\* the number of batches cut before batch id: id is the k-th batch, k from 0
CutsBefore(id) == Cardinality({j \in BatchIds : j < id /\ Created(j)})

\* batch id sits in slot i of the ring and the id->slot index says so
InstalledIn(id, i) == batchIdToBatchIndex[id] = i /\ batches[i] = id

(***************************************************************************)
(* C34.  The k-th batch cut (k = 0, 1, 2, ...) is installed in ring slot   *)
(* k mod cacheLifespan, and the id->slot index maps its id to exactly that *)
(* slot for as long as the batch is cached.                                *)
(***************************************************************************)
C34_RingSlotOfKthBatch ==
    config.cacheLifespan >= 1 =>
        \A id \in BatchIds :
            Cached(id) => InstalledIn(id, CutsBefore(id) % config.cacheLifespan)

\* the same, for engines whose key derivation never raises; with cacheLifespan
\* 0 the slot is the one JavaScript's k % 0 names
RingSlotWhenKeysDerive ==
    config.hashFn = "undefined" =>
        \A id \in BatchIds :
            Cached(id) => InstalledIn(id, JsMod(CutsBefore(id), config.cacheLifespan))

\* in every engine the slot is the value of the cut counter at the cut, modulo
\* cacheLifespan: a cut that raises midway consumes a value of the counter
RingSlotByCounter ==
    \A id \in BatchIds :
        Cached(id) => InstalledIn(id, JsMod(id - 1, config.cacheLifespan))

\* the third batch has wrapped round to slot 0 of a ring of two, next to the second
RingWrappedRound ==
    /\ config.hashFn = "undefined" /\ config.cacheLifespan = 2
    /\ InstalledIn(3, 0) /\ InstalledIn(2, 1)
    /\ CutsBefore(3) = 2

(***************************************************************************)
(* Size of the lookup state.                                               *)
(***************************************************************************)
\* the keys of the key index that map to a batch id
BatchedKeys == {k \in Keys : stringToBatchId[k] \in BatchIds}

\* the keys of the key index that are pending
PendingKeys == {k \in Keys : stringToBatchId[k] = Null}

\* the ids of the id->slot index
IndexedIds == {id \in BatchIds : batchIdToBatchIndex[id] # Undefined}

LookupStateBounded ==
    /\ Cardinality(BatchedKeys) <= config.cacheLifespan * config.maxBatchSize
    /\ Cardinality(PendingKeys) <= Len(queue)
    /\ Cardinality(IndexedIds) <= config.cacheLifespan

(***************************************************************************)
(* C35.  Bounded lookup state (maxBatchSize >= 1): in every reachable      *)
(* state the key index holds at most cacheLifespan x maxBatchSize keys     *)
(* that map to batch ids and at most one pending key per queued message,   *)
(* and the id->slot index holds at most cacheLifespan ids, however many    *)
(* messages have been submitted.                                           *)
(***************************************************************************)
C35_BoundedLookupState ==
    (config.maxBatchSize >= 1 /\ config.cacheLifespan >= 1) => LookupStateBounded

\* the same, for engines whose key derivation never raises
LookupStateBoundedWhenKeysDerive ==
    (config.maxBatchSize >= 1 /\ config.cacheLifespan >= 1 /\ config.hashFn = "undefined")
        => LookupStateBounded

\* three batches cut by a ring of one slot: one key and one id are left
LookupStateAtItsBound ==
    /\ config.hashFn = "undefined"
    /\ config.cacheLifespan = 1 /\ config.maxBatchSize = 1
    /\ Len(handed) = 3
    /\ Cardinality(BatchedKeys) = 1 /\ Cardinality(IndexedIds) = 1

(***************************************************************************)
(* The queue at rest.                                                      *)
(***************************************************************************)
\* a step that hands a batch to batchProcessFn and leaves messages queued
CutLeavesQueued == Len(handed') > Len(handed) /\ queue' # <<>>

QueueBelowThreshold ==
    /\ Len(queue) < config.maxBatchSize
    /\ ~ENABLED ((Tick \/ \E m \in Messages : Add(m)) /\ CutLeavesQueued)

(***************************************************************************)
(* C36.  With maxBatchSize >= 1 the queue never reaches the threshold at   *)
(* rest: in every state between operations it holds fewer than             *)
(* maxBatchSize messages, so that no cut, by add or by the timer, leaves a *)
(* message queued behind it.                                               *)
(***************************************************************************)
C36_QueueBelowThresholdAtRest ==
    (config.maxBatchSize >= 1 /\ config.cacheLifespan >= 1) => QueueBelowThreshold

\* the same, for engines whose key derivation never raises
QueueBelowThresholdWhenKeysDerive ==
    (config.maxBatchSize >= 1 /\ config.hashFn = "undefined") => QueueBelowThreshold

\* a cut by add and a cut by the timer have each emptied the queue
QueueEmptiedByCuts ==
    /\ config.hashFn = "undefined" /\ config.maxBatchSize = 2
    /\ Len(handed) = 2 /\ queue = <<>>
    /\ Len(batchObjs[1].messages) = 2 /\ Len(batchObjs[2].messages) = 1

(***************************************************************************)
(* The stopped engine.                                                     *)
(***************************************************************************)
\* this step is the end of a stop() call: a sleeping call leaves its loop, or
\* a call on an empty queue runs through
StopReturns == StopPoll \/ (Stop /\ queue = <<>>)

\* not accepting and no timer armed
Stopped == ~config.start /\ timers = {}

\* a step that cuts a batch or invokes batchProcessFn
CutsOrInvokes ==
    \/ handed' # handed
    \/ uuidCount' # uuidCount
    \/ currentBatchIndex' # currentBatchIndex
    \/ \E id \in BatchIds : ~Created(id) /\ batchObjs'[id] # NoBatch

(***************************************************************************)
(* C37.  After stop() completes with no start() called since it began      *)
(* (accepting is still off when it completes), the engine is not           *)
(* accepting and no timer is armed; and from then on, until start() is     *)
(* called, the engine stays so, no timer can fire, every add is declined   *)
(* without touching the queue, no batch is cut and batchProcessFn is not   *)
(* invoked.                                                                *)
(***************************************************************************)
C37_StoppedUntilStart ==
    /\ [][(StopReturns /\ ~config'.start) => Stopped']_vars
    /\ [](Stopped =>
             /\ ~ENABLED Tick
             /\ ~ENABLED ((\E m \in Messages : Add(m))
                             /\ (CutsOrInvokes \/ queue' # queue \/ ret'.status # "DECLINED")))
    /\ [][(Stopped /\ ~config'.start) => (Stopped' /\ ~CutsOrInvokes)]_vars

\* a stop() that waited for the queue has completed after the timer cut a
\* batch, and an add after it was declined
C37_Witness ==
    /\ Stopped /\ stopsWaiting = 0 /\ intervalId # Null
    /\ Len(handed) = 1 /\ nPushed = 1
    /\ promises[1] = "pending"
    /\ ret = Result(Null, "DECLINED")

(***************************************************************************)
(* start() while a stop() is waiting for the queue.                        *)
(***************************************************************************)
\* a stop() call is asleep in its loop and start() has been called since it
\* switched accepting off
RestartedDuringDrain == stopsWaiting > 0 /\ config.start

\* add(m) would not be declined as a duplicate and its key can be derived
Acceptable(m) ==
    /\ m # "nil"
    /\ ~messageToKeyThrows(m)
    /\ config.allowDuplicates \/ stringToBatchId[messageToKey(m)] = Undefined

(***************************************************************************)
(* C38.  Restart during drain: a start() called while a stop() call is     *)
(* waiting for the queue makes the engine accept at once, with the timer   *)
(* armed, and leaves the stop() waiting; the waiting stop() can complete   *)
(* as soon as the queue is empty; and when it completes it leaves          *)
(* accepting on and the timer armed by start() armed.                      *)
(***************************************************************************)
C38_RestartDuringDrain ==
    /\ [][(Start /\ stopsWaiting > 0) =>
             (config'.start /\ timers' = {intervalId'} /\ stopsWaiting' = stopsWaiting)]_vars
    /\ [](RestartedDuringDrain =>
             /\ \A m \in Messages \ {"nil"} : ~ENABLED AddDeclined(m)
             /\ \A m \in Messages :
                   (Acceptable(m) /\ nPushed < MaxAdds /\ config.hashFn = "undefined")
                       => ENABLED (Add(m) /\ accepted' # accepted))
    /\ []((stopsWaiting > 0 /\ queue = <<>>) => ENABLED StopPoll)
    /\ [][(StopPoll /\ config.start) =>
             /\ config'.start
             /\ intervalId' = intervalId /\ timers' = {intervalId}
             /\ timers' = timers]_vars

\* start() was called while a stop() was waiting for one queued message, the
\* next add was accepted and cut a batch of two, and the stop() can complete
C38_Witness ==
    /\ RestartedDuringDrain
    /\ config.maxBatchSize = 2
    /\ queue = <<>> /\ nPushed = 2 /\ Len(handed) = 1
    /\ ret = Result(1, "BATCHED")
    /\ timers = {intervalId}
    /\ ENABLED StopPoll

(***************************************************************************)
(* Key derivation failing in add.                                          *)
(***************************************************************************)
\* this step is an add that raised
AddRaises == AddStep /\ ret'.status = "THROWN"

\* every queued entry was accepted by the add that submitted it
QueuedAreAccepted == \A i \in 1 .. Len(queue) : IsAccepted(queue[i])

(***************************************************************************)
(* C39.  When key derivation fails during add, the failure is re-raised to *)
(* the caller and the engine state is unchanged: the message is not in the *)
(* queue, no pending key is registered and no batch is cut, whether        *)
(* allowDuplicates is true or false; so the timer never meets a queued     *)
(* message whose add was reported as failed.                               *)
(***************************************************************************)
C39_FailedAddChangesNothing ==
    [][config.cacheLifespan >= 1 =>
          /\ AddRaises => engineState' = engineState
          /\ Tick => QueuedAreAccepted]_vars

\* what does hold: with duplicate suppression on, the key is derived by the
\* duplicate check before anything is written
FailedAddChangesNothingWhenSuppressing ==
    [][~config.allowDuplicates =>
          /\ AddRaises => engineState' = engineState
          /\ Tick => QueuedAreAccepted]_vars

\* an add has raised on the duplicate check, behind a queued message
FailedOnDuplicateCheck ==
    /\ ~config.allowDuplicates /\ config.hashFn # "undefined"
    /\ ret.status = "THROWN"
    /\ Len(queue) = 1 /\ QueuedAreAccepted

(***************************************************************************)
(* add and status on the same messages.                                    *)
(***************************************************************************)
\* m is a message of the queue
Queued(m) == \E i \in 1 .. Len(queue) : queue[i].m = m

\* the cached batches that hold m
CachedBatchesOf(m) ==
    {id \in BatchIds : Cached(id) /\ \E i \in 1 .. Len(batchObjs[id].messages) :
                                          batchObjs[id].messages[i].m = m}

\* status(m) answers for m what add did with it
StatusAgreesOn(m) ==
    /\ Queued(m) => status(m) = Result(Null, "QUEUED")
    /\ \A id \in CachedBatchesOf(m) : status(m) = Result(id, batchObjs[id].status)
    /\ (Queued(m) \/ CachedBatchesOf(m) # {}) => status(m).status # "NOTFOUND"

(***************************************************************************)
(* C40.  add and status agree on which messages exist: for every value add *)
(* accepts, the falsy values 0, '' and false included, status(m) answers   *)
(* QUEUED while m is queued and the id and status of its batch while that  *)
(* batch is cached, and never NOTFOUND for a queued or cached message      *)
(* (stated with duplicate suppression on, where a message is in one place  *)
(* only).                                                                  *)
(***************************************************************************)
C40_AddAndStatusAgree ==
    (config.cacheLifespan >= 1 /\ config.hashFn = "undefined" /\ ~config.allowDuplicates) =>
        \A m \in Messages \ {"nil"} : StatusAgreesOn(m)

\* what does hold: they agree on the messages that are not falsy
AddAndStatusAgreeUnlessFalsy ==
    ~config.allowDuplicates =>
        \A m \in Messages \ {"nil"} : ~Falsy(m) => StatusAgreesOn(m)

\* one message is queued and another is in a settled batch, both reported
AgreeOnQueuedAndSettled ==
    /\ ~config.allowDuplicates
    /\ Queued("b") /\ status("b") = Result(Null, "QUEUED")
    /\ CachedBatchesOf("a") = {1} /\ status("a") = Result(1, "RESOLVED")

====
